---- MODULE Spec2Model ----
(***************************************************************************)
(* Model of askbot/views/avatar_views.py: the avatar listing               *)
(* (get_avatar_data) and the views that change a user's avatar_type and    *)
(* the primary flag of the uploaded avatars.                               *)
(*                                                                         *)
(* Spec     : every request is served to completion before the next one.  *)
(* SpecConc : two requests are served at once; a view is split at its      *)
(*            database statements.                                         *)
(***************************************************************************)
EXTENDS Integers, Sequences, FiniteSets, TLC

VARIABLES avatar_type, avatar_set, next_pk, last, pc, local

vars == <<avatar_type, avatar_set, next_pk, last, pc, local>>

(***************************************************************************)
(* Bounds                                                                  *)
(***************************************************************************)
\* highest primary key an upload may allocate
MaxPk == 3
\* the configured avatar.conf.settings.AVATAR_MAX_AVATARS_PER_USER
AVATAR_MAX_AVATARS_PER_USER == 2

\* the users whose avatars are tracked
Users == {1, 2}
\* a primary key that resolves to no User / no Avatar row
MissingPk == 0
\* request.POST without the 'choice' key
NoChoice == 0 - 1
Procs == {1, 2}

DefaultAvatarSize == 128

(***************************************************************************)
(* Callers: request.user                                                   *)
(***************************************************************************)
AnonymousUser == [id |-> 0 - 1, is_authenticated |-> FALSE,
                  is_administrator |-> FALSE, is_moderator |-> FALSE]

PlainUser(u) == [id |-> u, is_authenticated |-> TRUE,
                 is_administrator |-> FALSE, is_moderator |-> FALSE]

Administrator == [id |-> 3, is_authenticated |-> TRUE,
                  is_administrator |-> TRUE, is_moderator |-> FALSE]

Moderator == [id |-> 4, is_authenticated |-> TRUE,
              is_administrator |-> FALSE, is_moderator |-> TRUE]

Callers == {AnonymousUser, Administrator, Moderator} \cup {PlainUser(u) : u \in Users}

is_administrator_or_moderator(user) == user.is_administrator \/ user.is_moderator

Methods == {"GET", "POST"}

(***************************************************************************)
(* The database: d.avatar_type[u] is User.avatar_type, d.avatar_set[u] is  *)
(* user.avatar_set.all() in storage order, each row [id, primary].         *)
(***************************************************************************)
DB == [avatar_type |-> avatar_type, avatar_set |-> avatar_set, next_pk |-> next_pk]

Range(s) == {s[i] : i \in DOMAIN s}

Ids(rows) == {rows[i].id : i \in DOMAIN rows}

AllIds(d) == UNION {Ids(d.avatar_set[u]) : u \in Users}

\* avatar.user_id of the row with this primary key
OwnerOf(d, avatar_id) == CHOOSE u \in Users : avatar_id \in Ids(d.avatar_set[u])

\* queryset.update(primary=False) over these rows
ClearPrimary(rows) == [i \in DOMAIN rows |-> [rows[i] EXCEPT !.primary = FALSE]]

\* the rows without the one whose key is avatar_id
WithoutRow(rows, avatar_id) == SelectSeq(rows, LAMBDA r : r.id # avatar_id)

\* rows with row r put at its place in primary-key order
WithRow(rows, r) ==
    SelectSeq(rows, LAMBDA x : x.id < r.id) \o <<r>> \o SelectSeq(rows, LAMBDA x : x.id > r.id)

\* Avatar.save(): a saved primary avatar takes the flag from the user's other
\* avatars; the row is updated, or inserted when no row has its key
Avatar_save(d, user_id, avatar) ==
    LET rows   == d.avatar_set[user_id]
        others == WithoutRow(rows, avatar.id)
        kept   == IF avatar.primary THEN ClearPrimary(others) ELSE others
    IN [d EXCEPT !.avatar_set[user_id] = WithRow(kept, avatar)]

\* the handler run after an Avatar row is saved: the user now shows an upload
update_avatar_type(d, user_id) == [d EXCEPT !.avatar_type[user_id] = "a"]

\* avatar.save() as the views see it: the save and the handler that follows it
SaveAvatar(d, user_id, avatar) == update_avatar_type(Avatar_save(d, user_id, avatar), user_id)

\* user.avatar_type = t; user.save()
SaveUserType(d, user_id, t) == [d EXCEPT !.avatar_type[user_id] = t]

\* the User object a view loads
UserObj(d, user_id) ==
    [id |-> user_id, avatar_type |-> d.avatar_type[user_id], avatar_set |-> d.avatar_set[user_id]]

(***************************************************************************)
(* get_avatar_data                                                         *)
(***************************************************************************)
\* id of a datum that has no 'id' key (gravatar and default avatar)
NoId == 0

\* avatar.avatar_url(size), user.get_gravatar_url(size), user.get_default_avatar_url(size)
avatar_url(avatar_id, avatar_size) == <<"avatar_url", avatar_id, avatar_size>>

get_gravatar_url(user_id, avatar_size) == <<"gravatar_url", user_id, avatar_size>>

get_default_avatar_url(user_id, avatar_size) == <<"default_avatar_url", user_id, avatar_size>>

\* one datum for each uploaded avatar, in the order of user.avatar_set.all()
UploadedData(user, avatar_size) ==
    [i \in DOMAIN user.avatar_set |->
        [id |-> user.avatar_set[i].id,
         avatar_type |-> "uploaded_avatar",
         url |-> avatar_url(user.avatar_set[i].id, avatar_size),
         is_primary |-> user.avatar_set[i].primary]]

gravatar_datum(user, avatar_size) ==
    [id |-> NoId,
     avatar_type |-> "gravatar",
     url |-> get_gravatar_url(user.id, avatar_size),
     is_primary |-> (user.avatar_type = "g")]

default_datum(user, avatar_size) ==
    [id |-> NoId,
     avatar_type |-> "default_avatar",
     url |-> get_default_avatar_url(user.id, avatar_size),
     is_primary |-> (user.avatar_type = "n")]

\* avatar_data with the default avatar datum appended before the gravatar datum
CandidateDataDefaultFirst(user, avatar_size) ==
    UploadedData(user, avatar_size)
        \o <<default_datum(user, avatar_size)>>
        \o <<gravatar_datum(user, avatar_size)>>

\* avatar_data before the primary one is settled: uploads, gravatar, default
CandidateData(user, avatar_size) ==
    UploadedData(user, avatar_size)
        \o <<gravatar_datum(user, avatar_size)>>
        \o <<default_datum(user, avatar_size)>>

\* positions of filter(lambda v: v['is_primary'], avatar_data), in order
PrimaryIdx(avatar_data) ==
    SelectSeq([i \in DOMAIN avatar_data |-> i], LAMBDA i : avatar_data[i].is_primary)

\* the attributes a datum (a dict) answers to: v.type is not one of them
DictAttributes == {}

\* filter(lambda v: v.type == 'gravatar', primary_avatars): the positions kept,
\* or the AttributeError of the first v.type
GravatarFilter(avatar_data, primary_idx) ==
    IF Len(primary_idx) > 0 /\ "type" \notin DictAttributes
    THEN [raised |-> TRUE, idx |-> <<>>]
    ELSE [raised |-> FALSE,
          idx |-> SelectSeq(primary_idx, LAMBDA i : avatar_data[i].avatar_type = "gravatar")]

\* lines 65-81: force just one primary avatar if there are more than one
ForceOnePrimary(avatar_data) ==
    LET primary_idx == PrimaryIdx(avatar_data)
    IN IF Len(primary_idx) > 1
       THEN LET gravatars == GravatarFilter(avatar_data, primary_idx)
                cleared   == [i \in DOMAIN avatar_data |->
                                 [avatar_data[i] EXCEPT !.is_primary = FALSE]]
                chosen    == IF Len(gravatars.idx) > 0 THEN gravatars.idx[1] ELSE primary_idx[1]
            IN IF gravatars.raised
               THEN [raised |-> TRUE, avatar_data |-> <<>>]
               ELSE [raised |-> FALSE,
                     avatar_data |-> [cleared EXCEPT ![chosen].is_primary = TRUE]]
       ELSE [raised |-> FALSE, avatar_data |-> avatar_data]

\* list.remove(x) taken for list.pop(): drops the last element
ListRemoveLast(list, x) == [i \in 1..(Len(list) - 1) |-> list[i]]

\* list.remove(x): drops the first element equal to x
ListRemove(list, x) ==
    LET first == CHOOSE i \in DOMAIN list :
                     list[i] = x /\ \A j \in DOMAIN list : list[j] = x => i <= j
    IN [i \in 1..(Len(list) - 1) |-> IF i < first THEN list[i] ELSE list[i + 1]]

\* lines 83-88: insert primary avatar first
InsertPrimaryLast(avatar_data) ==
    LET primary_idx == PrimaryIdx(avatar_data)
    IN IF Len(primary_idx) > 0
       THEN ListRemove(avatar_data, avatar_data[primary_idx[1]]) \o <<avatar_data[primary_idx[1]]>>
       ELSE avatar_data

InsertPrimaryFirst(avatar_data) ==
    LET primary_idx == PrimaryIdx(avatar_data)
    IN IF Len(primary_idx) > 0
       THEN <<avatar_data[primary_idx[1]]>> \o ListRemove(avatar_data, avatar_data[primary_idx[1]])
       ELSE avatar_data

\* lines 65-88 applied to a list of data: the normalized list, or the exception
Normalize(avatar_data) ==
    LET forced == ForceOnePrimary(avatar_data)
    IN IF forced.raised
       THEN [raised |-> TRUE, avatar_data |-> <<>>]
       ELSE [raised |-> FALSE, avatar_data |-> InsertPrimaryFirst(forced.avatar_data)]

\* get_avatar_data returning, as its boolean, whether the user shows an upload
get_avatar_data_type_flag(user, avatar_size) ==
    LET forced == ForceOnePrimary(CandidateData(user, avatar_size))
    IN IF forced.raised
       THEN [raised |-> TRUE, avatar_data |-> <<>>, has_uploaded_avatar |-> FALSE]
       ELSE [raised |-> FALSE,
             avatar_data |-> InsertPrimaryFirst(forced.avatar_data),
             has_uploaded_avatar |-> (user.avatar_type = "a")]

\* get_avatar_data(user, avatar_size): the listing and the boolean, or the exception
get_avatar_data(user, avatar_size) ==
    LET forced == ForceOnePrimary(CandidateData(user, avatar_size))
    IN IF forced.raised
       THEN [raised |-> TRUE, avatar_data |-> <<>>, has_uploaded_avatar |-> FALSE]
       ELSE [raised |-> FALSE,
             avatar_data |-> InsertPrimaryFirst(forced.avatar_data),
             has_uploaded_avatar |-> (Len(user.avatar_set) # 0)]

(***************************************************************************)
(* Requests and responses                                                  *)
(***************************************************************************)
Views == {"show_list", "set_primary", "upload", "delete",
          "enable_gravatar", "enable_default_avatar", "disable_gravatar"}

\* a request: request.user, request.method, the url argument (user_id or
\* avatar_id), request.POST['choice'], 'avatar' in request.FILES, and whether
\* the uploaded file passes the form's checks of the file itself
Req(v, caller, m, uid, aid, c, hf, fok) ==
    [view |-> v, user |-> caller, method |-> m, user_id |-> uid,
     avatar_id |-> aid, choice |-> c, has_file |-> hf, file_ok |-> fok]

\* redirect_to_show_list reversing the url of the user's profile page
redirect_to_profile(user_id) == [status |-> "redirect", to |-> <<"user_profile", user_id>>]

redirect_to_show_list(user_id) == [status |-> "redirect", to |-> <<"askbot_avatar_show_list", user_id>>]

RedirectToLogin == [status |-> "redirect", to |-> <<"login", MissingPk>>]

Http404 == [status |-> "404", to |-> <<"", MissingPk>>]

ServerError == [status |-> "500", to |-> <<"", MissingPk>>]

Render(user_id) == [status |-> "render", to |-> <<"avatar/show_list.html", user_id>>]

NoData == [raised |-> FALSE, avatar_data |-> <<>>, has_uploaded_avatar |-> FALSE]

\* what a view hands back: the database it leaves, its response, whether its
\* mutation was applied, and the listing it rendered
Out(d, response, applied, data) == [d |-> d, response |-> response, applied |-> applied, data |-> data]

(***************************************************************************)
(* admin_or_owner_required / login_required                                *)
(***************************************************************************)
\* login_required(func)(request, user_id): the view runs for an authenticated
\* user, anyone else is sent to the login page
login_required(request) == IF request.user.is_authenticated THEN "func" ELSE "login"

admin_or_owner_required(request) ==
    IF request.user.is_authenticated
       /\ (request.user.is_administrator \/ request.user.id = request.user_id)
    THEN "func"
    ELSE login_required(request)

(***************************************************************************)
(* Forms (avatar.forms)                                                    *)
(***************************************************************************)
\* PrimaryAvatarForm(request.POST, user, avatars).is_valid(): the choice is
\* one of the user's avatars
PrimaryAvatarForm_is_valid(d, request) == request.choice \in Ids(d.avatar_set[request.user_id])

\* UploadAvatarForm(request.POST, request.FILES, user).is_valid(): the file is
\* acceptable and the user is below AVATAR_MAX_AVATARS_PER_USER
UploadAvatarForm_is_valid(d, request) ==
    request.file_ok /\ Len(d.avatar_set[request.user_id]) < AVATAR_MAX_AVATARS_PER_USER

(***************************************************************************)
(* The view bodies, statement by statement                                 *)
(***************************************************************************)
\* get_object_or_404(User, pk=user_id) finds a row
UserExists(user_id) == user_id \in Users

\* get_object_or_404(Avatar, pk=avatar_id) finds a row
AvatarExists(d, avatar_id) == avatar_id \in AllIds(d)

\* set_primary, lines 128-130, written as a bare row update of the chosen avatar
MarkPrimaryRowOnly(d, user_id, avatar_id) ==
    [d EXCEPT !.avatar_set[user_id] =
        [i \in DOMAIN @ |-> IF @[i].id = avatar_id THEN [@[i] EXCEPT !.primary = TRUE] ELSE @[i]]]

\* set_primary, lines 128-130: avatar.primary = True; avatar.save()
MarkPrimary(d, user_id, avatar_id) == SaveAvatar(d, user_id, [id |-> avatar_id, primary |-> TRUE])

\* upload, lines 144-147, creating the avatar with primary=False
CreateAvatarNotPrimary(d, user_id) ==
    [SaveAvatar(d, user_id, [id |-> d.next_pk, primary |-> FALSE]) EXCEPT !.next_pk = d.next_pk + 1]

\* upload, lines 144-147: Avatar(user=user, primary=True) saved under a new key
CreateAvatar(d, user_id) ==
    [SaveAvatar(d, user_id, [id |-> d.next_pk, primary |-> TRUE]) EXCEPT !.next_pk = d.next_pk + 1]

\* delete, line 161: avatar.delete()
DeleteRow(d, user_id, avatar_id) ==
    [d EXCEPT !.avatar_set[user_id] = WithoutRow(d.avatar_set[user_id], avatar_id)]

\* an update(primary=False) that is not filtered by user
UpdateClearPrimaryAllUsers(d, user_id) ==
    [d EXCEPT !.avatar_set = [u \in DOMAIN @ |-> ClearPrimary(@[u])]]

\* lines 165, 176, 186: user.avatar_set.update(primary=False)
UpdateClearPrimary(d, user_id) ==
    [d EXCEPT !.avatar_set[user_id] = ClearPrimary(d.avatar_set[user_id])]

\* disable_gravatar, lines 196-199, promoting every avatar of the user
PromoteAll(d, user_id) ==
    [d EXCEPT !.avatar_set[user_id] = [i \in DOMAIN @ |-> [@[i] EXCEPT !.primary = TRUE]]]

\* disable_gravatar, lines 196-199, taking the last avatar instead of all()[0]
PromoteLast(d, user_id) ==
    IF Len(d.avatar_set[user_id]) # 0
    THEN SaveAvatar(d, user_id,
                    [id |-> d.avatar_set[user_id][Len(d.avatar_set[user_id])].id, primary |-> TRUE])
    ELSE d

\* disable_gravatar, lines 196-199: the first avatar becomes primary, if any
PromoteFirst(d, user_id) ==
    IF Len(d.avatar_set[user_id]) # 0
    THEN SaveAvatar(d, user_id, [id |-> d.avatar_set[user_id][1].id, primary |-> TRUE])
    ELSE d

(***************************************************************************)
(* The views                                                               *)
(***************************************************************************)
\* show_list, lines 100-113
show_list(d, request) ==
    IF ~UserExists(request.user_id)
    THEN Out(d, Http404, FALSE, NoData)
    ELSE LET data == get_avatar_data(UserObj(d, request.user_id), DefaultAvatarSize)
         IN IF data.raised
            THEN Out(d, ServerError, FALSE, data)
            ELSE Out(d, Render(request.user_id), FALSE, data)

\* set_primary, lines 116-132
set_primary(d, request) ==
    IF ~UserExists(request.user_id)
    THEN Out(d, Http404, FALSE, NoData)
    ELSE IF request.method = "POST"
            /\ request.choice # NoChoice
            /\ PrimaryAvatarForm_is_valid(d, request)
         THEN Out(MarkPrimary(d, request.user_id, request.choice),
                  redirect_to_show_list(request.user_id), TRUE, NoData)
         ELSE Out(d, redirect_to_show_list(request.user_id), FALSE, NoData)

\* upload, lines 136-150, saving the avatar without asking form.is_valid()
upload_unvalidated(d, request) ==
    IF ~UserExists(request.user_id)
    THEN Out(d, Http404, FALSE, NoData)
    ELSE IF request.method = "POST" /\ request.has_file
         THEN Out(CreateAvatar(d, request.user_id),
                  redirect_to_show_list(request.user_id), TRUE, NoData)
         ELSE Out(d, redirect_to_show_list(request.user_id), FALSE, NoData)

\* upload, lines 136-150
upload(d, request) ==
    IF ~UserExists(request.user_id)
    THEN Out(d, Http404, FALSE, NoData)
    ELSE IF request.method = "POST" /\ request.has_file /\ UploadAvatarForm_is_valid(d, request)
         THEN Out(CreateAvatar(d, request.user_id),
                  redirect_to_show_list(request.user_id), TRUE, NoData)
         ELSE Out(d, redirect_to_show_list(request.user_id), FALSE, NoData)

\* delete, lines 153-167, clearing the remaining flags whatever the avatar_type
delete_always_clears(d, request) ==
    IF ~AvatarExists(d, request.avatar_id)
    THEN Out(d, Http404, FALSE, NoData)
    ELSE LET owner == OwnerOf(d, request.avatar_id)
         IN IF request.method = "POST"
               /\ request.user.is_authenticated
               /\ (is_administrator_or_moderator(request.user) \/ owner = request.user.id)
            THEN LET captured == d.avatar_type[owner]
                     deleted  == DeleteRow(d, owner, request.avatar_id)
                     restored == SaveUserType(deleted, owner, captured)
                 IN Out(UpdateClearPrimary(restored, owner),
                        redirect_to_show_list(owner), TRUE, NoData)
            ELSE Out(d, redirect_to_show_list(owner), FALSE, NoData)

\* delete, lines 153-167, without the test of line 159 on the avatar's owner
delete_any_authenticated(d, request) ==
    IF ~AvatarExists(d, request.avatar_id)
    THEN Out(d, Http404, FALSE, NoData)
    ELSE LET owner == OwnerOf(d, request.avatar_id)
         IN IF request.method = "POST" /\ request.user.is_authenticated
            THEN LET captured == d.avatar_type[owner]
                     deleted  == DeleteRow(d, owner, request.avatar_id)
                     restored == SaveUserType(deleted, owner, captured)
                 IN Out(IF captured = "g" THEN UpdateClearPrimary(restored, owner) ELSE restored,
                        redirect_to_show_list(owner), TRUE, NoData)
            ELSE Out(d, redirect_to_show_list(owner), FALSE, NoData)

\* delete, lines 153-167
delete(d, request) ==
    IF ~AvatarExists(d, request.avatar_id)
    THEN Out(d, Http404, FALSE, NoData)
    ELSE LET owner == OwnerOf(d, request.avatar_id)
         IN IF request.method = "POST"
               /\ request.user.is_authenticated
               /\ (is_administrator_or_moderator(request.user) \/ owner = request.user.id)
            THEN LET captured == d.avatar_type[owner]
                     deleted  == DeleteRow(d, owner, request.avatar_id)
                     restored == SaveUserType(deleted, owner, captured)
                 IN Out(IF captured = "g" THEN UpdateClearPrimary(restored, owner) ELSE restored,
                        redirect_to_show_list(owner), TRUE, NoData)
            ELSE Out(d, redirect_to_show_list(owner), FALSE, NoData)

\* enable_gravatar, lines 171-177, without the update of line 176
enable_gravatar_no_clear(d, request) ==
    IF request.method = "POST"
    THEN IF ~UserExists(request.user_id)
         THEN Out(d, Http404, FALSE, NoData)
         ELSE Out(SaveUserType(d, request.user_id, "g"),
                  redirect_to_show_list(request.user_id), TRUE, NoData)
    ELSE Out(d, redirect_to_show_list(request.user_id), FALSE, NoData)

\* enable_gravatar, lines 171-177
enable_gravatar(d, request) ==
    IF request.method = "POST"
    THEN IF ~UserExists(request.user_id)
         THEN Out(d, Http404, FALSE, NoData)
         ELSE Out(UpdateClearPrimary(SaveUserType(d, request.user_id, "g"), request.user_id),
                  redirect_to_show_list(request.user_id), TRUE, NoData)
    ELSE Out(d, redirect_to_show_list(request.user_id), FALSE, NoData)

\* enable_default_avatar, lines 181-187
enable_default_avatar(d, request) ==
    IF request.method = "POST"
    THEN IF ~UserExists(request.user_id)
         THEN Out(d, Http404, FALSE, NoData)
         ELSE Out(UpdateClearPrimary(SaveUserType(d, request.user_id, "n"), request.user_id),
                  redirect_to_show_list(request.user_id), TRUE, NoData)
    ELSE Out(d, redirect_to_show_list(request.user_id), FALSE, NoData)

\* disable_gravatar, lines 191-201
disable_gravatar(d, request) ==
    IF request.method = "POST"
    THEN IF ~UserExists(request.user_id)
         THEN Out(d, Http404, FALSE, NoData)
         ELSE Out(PromoteFirst(SaveUserType(d, request.user_id, "a"), request.user_id),
                  redirect_to_show_list(request.user_id), TRUE, NoData)
    ELSE Out(d, redirect_to_show_list(request.user_id), FALSE, NoData)

\* the body the url of a decorated view resolves to
Body(d, request) ==
    CASE request.view = "show_list"             -> show_list(d, request)
      [] request.view = "set_primary"           -> set_primary(d, request)
      [] request.view = "upload"                -> upload(d, request)
      [] request.view = "enable_gravatar"       -> enable_gravatar(d, request)
      [] request.view = "enable_default_avatar" -> enable_default_avatar(d, request)
      [] request.view = "disable_gravatar"      -> disable_gravatar(d, request)

\* a view under @admin_or_owner_required
Decorated(d, request) ==
    IF admin_or_owner_required(request) = "func"
    THEN Body(d, request)
    ELSE Out(d, RedirectToLogin, FALSE, NoData)

\* the response to a request: delete is the one view without the decorator
Serve(d, request) ==
    IF request.view = "delete" THEN delete(d, request) ELSE Decorated(d, request)

(***************************************************************************)
(* Spec: one request at a time                                             *)
(***************************************************************************)
NoRequest == Req("none", AnonymousUser, "GET", MissingPk, MissingPk, NoChoice, FALSE, FALSE)

\* the user a request is about: the url's user_id, or the avatar's owner
Target(d, request) ==
    IF request.view = "delete"
    THEN IF AvatarExists(d, request.avatar_id) THEN OwnerOf(d, request.avatar_id) ELSE MissingPk
    ELSE request.user_id

\* last: the request being answered, with what the view returned, the user it
\* is about and that user's avatar_type when the request arrived
NoLast == [request |-> NoRequest, response |-> Http404, applied |-> FALSE,
           data |-> NoData, target |-> MissingPk, pre_type |-> "n"]

UserIds == Users \cup {MissingPk}

AvatarIds == 0..MaxPk

\* the user all the requests of SpecConc are about
ConcUser == CHOOSE u \in Users : \A w \in Users : u <= w

\* what a request in flight holds: its view, the avatar key it was given or has
\* read, the avatar_type it has read, the listing it computed, its outcome,
\* whether it arrived while another request was under way, and whether it read
\* the avatars while another request was between two of its writes
NoLocal == [view |-> "none", avatar_id |-> MissingPk, avatar_type |-> "n",
            avatar_set |-> <<>>, data |-> NoData, applied |-> FALSE, status |-> "none",
            overlapped |-> FALSE, midway |-> FALSE]

\* a new user has no uploaded avatar and shows the gravatar or the default avatar
Init ==
    /\ avatar_type \in [Users -> {"g", "n"}]
    /\ avatar_set = [u \in Users |-> <<>>]
    /\ next_pk = 1
    /\ last = NoLast
    /\ pc = [p \in Procs |-> "idle"]
    /\ local = [p \in Procs |-> NoLocal]

\* serve one request from start to end
Handle(request) ==
    LET out    == Serve(DB, request)
        target == Target(DB, request)
    IN /\ out.d.next_pk <= MaxPk + 1
       /\ avatar_type' = out.d.avatar_type
       /\ avatar_set' = out.d.avatar_set
       /\ next_pk' = out.d.next_pk
       /\ last' = [request |-> request, response |-> out.response, applied |-> out.applied,
                   data |-> out.data, target |-> target,
                   pre_type |-> IF target \in Users THEN avatar_type[target] ELSE "n"]
       /\ UNCHANGED <<pc, local>>

ShowList ==
    \E caller \in Callers, uid \in UserIds, m \in Methods :
        /\ last = NoLast
        /\ Handle(Req("show_list", caller, m, uid, MissingPk, NoChoice, FALSE, FALSE))

SetPrimary ==
    \E caller \in Callers, uid \in UserIds, m \in Methods, c \in {NoChoice} \cup AvatarIds :
        /\ last = NoLast
        /\ Handle(Req("set_primary", caller, m, uid, MissingPk, c, FALSE, FALSE))

Upload ==
    \E caller \in Callers, uid \in UserIds, m \in Methods, hf \in BOOLEAN, fok \in BOOLEAN :
        /\ last = NoLast
        /\ fok => hf
        /\ Handle(Req("upload", caller, m, uid, MissingPk, NoChoice, hf, fok))

Delete ==
    \E caller \in Callers, aid \in AvatarIds, m \in Methods :
        /\ last = NoLast
        /\ Handle(Req("delete", caller, m, MissingPk, aid, NoChoice, FALSE, FALSE))

EnableGravatar ==
    \E caller \in Callers, uid \in UserIds, m \in Methods :
        /\ last = NoLast
        /\ Handle(Req("enable_gravatar", caller, m, uid, MissingPk, NoChoice, FALSE, FALSE))

EnableDefaultAvatar ==
    \E caller \in Callers, uid \in UserIds, m \in Methods :
        /\ last = NoLast
        /\ Handle(Req("enable_default_avatar", caller, m, uid, MissingPk, NoChoice, FALSE, FALSE))

DisableGravatar ==
    \E caller \in Callers, uid \in UserIds, m \in Methods :
        /\ last = NoLast
        /\ Handle(Req("disable_gravatar", caller, m, uid, MissingPk, NoChoice, FALSE, FALSE))

\* the response leaves; the next request can be taken
Respond ==
    /\ last # NoLast
    /\ last' = NoLast
    /\ UNCHANGED <<avatar_type, avatar_set, next_pk, pc, local>>

Next ==
    \/ Respond
    \/ ShowList
    \/ SetPrimary
    \/ Upload
    \/ Delete
    \/ EnableGravatar
    \/ EnableDefaultAvatar
    \/ DisableGravatar

Spec == Init /\ [][Next]_vars

(***************************************************************************)
(* SpecConc: two requests in flight, all about ConcUser, sent by a caller  *)
(* the views let through (POST, forms filled in).  A step is one database  *)
(* statement of the view.                                                  *)
(***************************************************************************)
Goto(p, label) == pc' = [pc EXCEPT ![p] = label]

SetDB(d) ==
    /\ avatar_type' = d.avatar_type
    /\ avatar_set' = d.avatar_set
    /\ next_pk' = d.next_pk

SameDB == UNCHANGED <<avatar_type, avatar_set, next_pk>>

\* a request arrives; overlapped records that another request was under way
Begin(p, v, aid) ==
    [NoLocal EXCEPT !.view = v, !.avatar_id = aid,
                    !.overlapped = \E q \in Procs \ {p} : pc[q] \notin {"idle", "done"}]

\* request q has made one of the writes of its view and has another to make
BetweenWrites(q) ==
    pc[q] \in {"eg_clear", "ed_clear", "dg_count", "dg_first", "dg_save", "d_save", "d_clear"}

\* show_list, line 102: the user row is read
ShowListUser(p) ==
    /\ pc[p] = "idle"
    /\ local' = [local EXCEPT ![p] = [Begin(p, "show_list", MissingPk) EXCEPT
                                         !.avatar_type = avatar_type[ConcUser]]]
    /\ Goto(p, "sl_data")
    /\ SameDB /\ UNCHANGED last

\* show_list, lines 103-113: the avatars are read and the listing is computed
ShowListData(p) ==
    /\ pc[p] = "sl_data"
    /\ LET user == [id |-> ConcUser, avatar_type |-> local[p].avatar_type,
                    avatar_set |-> avatar_set[ConcUser]]
           data == get_avatar_data(user, DefaultAvatarSize)
       IN local' = [local EXCEPT ![p].avatar_set = avatar_set[ConcUser],
                                 ![p].midway = \E q \in Procs \ {p} : BetweenWrites(q),
                                 ![p].data = data,
                                 ![p].status = IF data.raised THEN "500" ELSE "render"]
    /\ Goto(p, "done")
    /\ SameDB /\ UNCHANGED last

\* set_primary, lines 122-127: the form checks the choice against the user's avatars
SetPrimaryForm(p) ==
    /\ pc[p] = "idle"
    /\ \E c \in 1..MaxPk :
          /\ local' = [local EXCEPT ![p] = [Begin(p, "set_primary", c) EXCEPT !.status = "redirect"]]
          /\ Goto(p, IF c \in Ids(avatar_set[ConcUser]) THEN "sp_get" ELSE "done")
    /\ SameDB /\ UNCHANGED last

\* set_primary, line 128: Avatar.objects.get(id=choice)
SetPrimaryGet(p) ==
    /\ pc[p] = "sp_get"
    /\ IF local[p].avatar_id \in Ids(avatar_set[ConcUser])
       THEN /\ Goto(p, "sp_save")
            /\ UNCHANGED local
       ELSE /\ Goto(p, "done")
            /\ local' = [local EXCEPT ![p].status = "500"]
    /\ SameDB /\ UNCHANGED last

\* set_primary, lines 129-130: avatar.primary = True; avatar.save()
SetPrimarySave(p) ==
    /\ pc[p] = "sp_save"
    /\ SetDB(MarkPrimary(DB, ConcUser, local[p].avatar_id))
    /\ local' = [local EXCEPT ![p].applied = TRUE]
    /\ Goto(p, "done")
    /\ UNCHANGED last

\* upload, lines 139-143: the form checks the number of avatars
UploadForm(p) ==
    /\ pc[p] = "idle"
    /\ next_pk + Cardinality({q \in Procs : pc[q] = "up_save"}) <= MaxPk
    /\ local' = [local EXCEPT ![p] = [Begin(p, "upload", MissingPk) EXCEPT !.status = "redirect"]]
    /\ Goto(p, IF Len(avatar_set[ConcUser]) < AVATAR_MAX_AVATARS_PER_USER THEN "up_save" ELSE "done")
    /\ SameDB /\ UNCHANGED last

\* upload, lines 144-147: the new avatar is saved
UploadSave(p) ==
    /\ pc[p] = "up_save"
    /\ SetDB(CreateAvatar(DB, ConcUser))
    /\ local' = [local EXCEPT ![p].applied = TRUE, ![p].avatar_id = next_pk]
    /\ Goto(p, "done")
    /\ UNCHANGED last

\* delete, line 154: get_object_or_404(Avatar, pk=avatar_id)
DeleteGet(p) ==
    /\ pc[p] = "idle"
    /\ \E a \in 1..MaxPk :
          IF a \in Ids(avatar_set[ConcUser])
          THEN /\ local' = [local EXCEPT ![p] = [Begin(p, "delete", a) EXCEPT !.status = "redirect"]]
               /\ Goto(p, "d_type")
          ELSE /\ local' = [local EXCEPT ![p] = [Begin(p, "delete", a) EXCEPT !.status = "404"]]
               /\ Goto(p, "done")
    /\ SameDB /\ UNCHANGED last

\* delete, line 160: avatar_type = avatar.user.avatar_type
DeleteType(p) ==
    /\ pc[p] = "d_type"
    /\ local' = [local EXCEPT ![p].avatar_type = avatar_type[ConcUser]]
    /\ Goto(p, "d_delete")
    /\ SameDB /\ UNCHANGED last

\* delete, line 161: avatar.delete()
DeleteDelete(p) ==
    /\ pc[p] = "d_delete"
    /\ SetDB(DeleteRow(DB, ConcUser, local[p].avatar_id))
    /\ local' = [local EXCEPT ![p].applied = TRUE]
    /\ Goto(p, "d_save")
    /\ UNCHANGED last

\* delete, lines 162-164: the avatar_type read at line 160 is saved
DeleteSave(p) ==
    /\ pc[p] = "d_save"
    /\ SetDB(SaveUserType(DB, ConcUser, local[p].avatar_type))
    /\ Goto(p, IF local[p].avatar_type = "g" THEN "d_clear" ELSE "done")
    /\ UNCHANGED <<local, last>>

\* delete, line 165: avatar.user.avatar_set.update(primary=False)
DeleteClear(p) ==
    /\ pc[p] = "d_clear"
    /\ SetDB(UpdateClearPrimary(DB, ConcUser))
    /\ Goto(p, "done")
    /\ UNCHANGED <<local, last>>

\* enable_gravatar, lines 173-175: user.avatar_type = 'g'; user.save()
EnableGravatarSave(p) ==
    /\ pc[p] = "idle"
    /\ SetDB(SaveUserType(DB, ConcUser, "g"))
    /\ local' = [local EXCEPT ![p] = [Begin(p, "enable_gravatar", MissingPk) EXCEPT
                                         !.status = "redirect", !.applied = TRUE]]
    /\ Goto(p, "eg_clear")
    /\ UNCHANGED last

\* enable_gravatar, line 176: user.avatar_set.update(primary=False)
EnableGravatarClear(p) ==
    /\ pc[p] = "eg_clear"
    /\ SetDB(UpdateClearPrimary(DB, ConcUser))
    /\ Goto(p, "done")
    /\ UNCHANGED <<local, last>>

\* enable_default_avatar, lines 183-185: user.avatar_type = 'n'; user.save()
EnableDefaultSave(p) ==
    /\ pc[p] = "idle"
    /\ SetDB(SaveUserType(DB, ConcUser, "n"))
    /\ local' = [local EXCEPT ![p] = [Begin(p, "enable_default_avatar", MissingPk) EXCEPT
                                         !.status = "redirect", !.applied = TRUE]]
    /\ Goto(p, "ed_clear")
    /\ UNCHANGED last

\* enable_default_avatar, line 186: user.avatar_set.update(primary=False)
EnableDefaultClear(p) ==
    /\ pc[p] = "ed_clear"
    /\ SetDB(UpdateClearPrimary(DB, ConcUser))
    /\ Goto(p, "done")
    /\ UNCHANGED <<local, last>>

\* disable_gravatar, lines 193-195: user.avatar_type = 'a'; user.save()
DisableGravatarSave(p) ==
    /\ pc[p] = "idle"
    /\ SetDB(SaveUserType(DB, ConcUser, "a"))
    /\ local' = [local EXCEPT ![p] = [Begin(p, "disable_gravatar", MissingPk) EXCEPT
                                         !.status = "redirect", !.applied = TRUE]]
    /\ Goto(p, "dg_count")
    /\ UNCHANGED last

\* disable_gravatar, line 196: user.avatar_set.count()
DisableGravatarCount(p) ==
    /\ pc[p] = "dg_count"
    /\ Goto(p, IF Len(avatar_set[ConcUser]) # 0 THEN "dg_first" ELSE "done")
    /\ SameDB /\ UNCHANGED <<local, last>>

\* disable_gravatar, line 197: user.avatar_set.all()[0]
DisableGravatarFirst(p) ==
    /\ pc[p] = "dg_first"
    /\ IF Len(avatar_set[ConcUser]) # 0
       THEN /\ local' = [local EXCEPT ![p].avatar_id = avatar_set[ConcUser][1].id]
            /\ Goto(p, "dg_save")
       ELSE /\ local' = [local EXCEPT ![p].status = "500"]
            /\ Goto(p, "done")
    /\ SameDB /\ UNCHANGED last

\* disable_gravatar, lines 198-199: avatar.primary = True; avatar.save()
DisableGravatarPromote(p) ==
    /\ pc[p] = "dg_save"
    /\ SetDB(MarkPrimary(DB, ConcUser, local[p].avatar_id))
    /\ Goto(p, "done")
    /\ UNCHANGED <<local, last>>

\* the response of a finished request leaves
Finish(p) ==
    /\ pc[p] = "done"
    /\ local' = [local EXCEPT ![p] = NoLocal]
    /\ Goto(p, "idle")
    /\ SameDB /\ UNCHANGED last

NextConc ==
    \E p \in Procs :
        \/ ShowListUser(p) \/ ShowListData(p)
        \/ SetPrimaryForm(p) \/ SetPrimaryGet(p) \/ SetPrimarySave(p)
        \/ UploadForm(p) \/ UploadSave(p)
        \/ DeleteGet(p) \/ DeleteType(p) \/ DeleteDelete(p) \/ DeleteSave(p) \/ DeleteClear(p)
        \/ EnableGravatarSave(p) \/ EnableGravatarClear(p)
        \/ EnableDefaultSave(p) \/ EnableDefaultClear(p)
        \/ DisableGravatarSave(p) \/ DisableGravatarCount(p)
        \/ DisableGravatarFirst(p) \/ DisableGravatarPromote(p)
        \/ Finish(p)

SpecConc == Init /\ [][NextConc]_vars

(***************************************************************************)
(* Properties of Spec                                                      *)
(***************************************************************************)
\* the listing show_list would compute for user u in the current state
Listing(u) == get_avatar_data(UserObj(DB, u), DefaultAvatarSize)

\* the uploaded avatars of u that are stored with primary = True
StoredPrimaries(u) == {i \in DOMAIN avatar_set[u] : avatar_set[u][i].primary}

\* a datum without its url
Entry(datum) == <<datum.avatar_type, datum.id, datum.is_primary>>

Entries(avatar_data) == [i \in DOMAIN avatar_data |-> Entry(avatar_data[i])]

\* C1: in every reachable state the listing of every user has exactly one
\* entry with is_primary, and that entry is at index 0 (the head of the list)
C1_OnePrimaryAtHead ==
    \A u \in Users :
        /\ ~Listing(u).raised
        /\ Len(PrimaryIdx(Listing(u).avatar_data)) = 1
        /\ Listing(u).avatar_data[1].is_primary

Unprivileged(request) ==
    /\ request.user.is_authenticated
    /\ ~request.user.is_administrator
    /\ request.user.id # request.user_id

\* C5: a request to set_primary, upload, enable_gravatar, enable_default_avatar
\* or disable_gravatar by an authenticated caller who is neither owner nor
\* administrator leaves avatar_type and the uploaded avatars as they were
C5_UnprivilegedChangesNothing ==
    [][(/\ last'.request.view \in {"set_primary", "upload", "enable_gravatar",
                                   "enable_default_avatar", "disable_gravatar"}
        /\ Unprivileged(last'.request))
       => (avatar_type' = avatar_type /\ avatar_set' = avatar_set)]_vars

C8_UploadEffect ==
    (last.request.view = "upload" /\ last.applied)
    => LET u == last.target
           x == next_pk - 1
       IN /\ avatar_type[u] = "a"
          /\ [id |-> x, primary |-> TRUE] \in Range(avatar_set[u])
          /\ (Len(avatar_set[u]) = 1
                => /\ ~Listing(u).raised
                   /\ Entry(Listing(u).avatar_data[1]) = <<"uploaded_avatar", x, TRUE>>)

\* C8 witness: a first upload applied to a user who showed the gravatar
C8_Witness ==
    /\ last.request.view = "upload"
    /\ last.applied
    /\ last.pre_type = "g"
    /\ Len(avatar_set[last.target]) = 1

\* the uploaded avatars of u as listing entries that are not primary
UploadedEntriesOff(u) ==
    [i \in DOMAIN avatar_set[u] |-> <<"uploaded_avatar", avatar_set[u][i].id, FALSE>>]

\* C9: after an applied enable_gravatar (enable_default_avatar) avatar_type is
\* 'g' ('n'), no uploaded avatar is stored primary, and the listing is the
\* chosen virtual entry, primary, then the uploads in storage order, then the
\* other virtual entry
C9_EnableVirtualEffect ==
    /\ (last.request.view = "enable_gravatar" /\ last.applied)
       => LET u == last.target
          IN /\ avatar_type[u] = "g"
             /\ StoredPrimaries(u) = {}
             /\ ~Listing(u).raised
             /\ Entries(Listing(u).avatar_data)
                  = <<<<"gravatar", NoId, TRUE>>>> \o UploadedEntriesOff(u)
                       \o <<<<"default_avatar", NoId, FALSE>>>>
    /\ (last.request.view = "enable_default_avatar" /\ last.applied)
       => LET u == last.target
          IN /\ avatar_type[u] = "n"
             /\ StoredPrimaries(u) = {}
             /\ ~Listing(u).raised
             /\ Entries(Listing(u).avatar_data)
                  = <<<<"default_avatar", NoId, TRUE>>>> \o UploadedEntriesOff(u)
                       \o <<<<"gravatar", NoId, FALSE>>>>

\* C9 witness: enable_gravatar applied to a user with two uploads who showed
\* an uploaded avatar
C9_Witness ==
    /\ last.request.view = "enable_gravatar"
    /\ last.applied
    /\ last.pre_type = "a"
    /\ Len(avatar_set[last.target]) = 2

\* C10: an applied delete removes the rows with the given key and no other,
\* leaves every avatar_type as it was, and leaves the flags of the owner's
\* remaining avatars as they were unless the owner's avatar_type was 'g', in
\* which case they all end False
C10_DeleteEffect ==
    [][(last'.request.view = "delete" /\ last'.applied)
       => LET u == last'.target
              a == last'.request.avatar_id
          IN /\ a \in Ids(avatar_set[u])
             /\ avatar_type' = avatar_type
             /\ \A w \in Users \ {u} : avatar_set'[w] = avatar_set[w]
             /\ Ids(avatar_set'[u]) = Ids(avatar_set[u]) \ {a}
             /\ IF avatar_type[u] = "g"
                THEN avatar_set'[u] = ClearPrimary(WithoutRow(avatar_set[u], a))
                ELSE avatar_set'[u] = WithoutRow(avatar_set[u], a)]_vars

\* C10 witness: a delete applied while the owner showed an uploaded avatar,
\* leaving another avatar that is still stored primary
C10_Witness ==
    /\ last.request.view = "delete"
    /\ last.applied
    /\ last.pre_type = "a"
    /\ StoredPrimaries(last.target) # {}

(***************************************************************************)
(* Properties of SpecConc                                                  *)
(***************************************************************************)
\* the user object a show_list request computed its listing from
Snapshot(p) == [id |-> ConcUser, avatar_type |-> local[p].avatar_type,
                avatar_set |-> local[p].avatar_set]

ShowListDone(p) == pc[p] = "done" /\ local[p].view = "show_list"

\* C3: the listing computation never ends in an error, whatever user state it
\* reads, a state with more than one entry flagged primary included
C3_ListingNeverRaises == \A p \in Procs : ShowListDone(p) => ~local[p].data.raised

\* the entry that normalization is to leave flagged when several are
Reconciled(candidates) ==
    LET P == PrimaryIdx(candidates)
    IN IF \E i \in Range(P) : candidates[i].avatar_type = "gravatar"
       THEN CHOOSE d \in Range(candidates) : d.avatar_type = "gravatar"
       ELSE candidates[P[1]]

\* C4: when more than one candidate entry is flagged primary, the listing
\* returned has exactly one entry flagged: the gravatar entry if it was
\* flagged, otherwise the first flagged entry in listing order
C4_TieBreak ==
    \A p \in Procs :
        (ShowListDone(p) /\ Len(PrimaryIdx(CandidateData(Snapshot(p), DefaultAvatarSize))) > 1)
        => /\ ~local[p].data.raised
           /\ {d \in Range(local[p].data.avatar_data) : d.is_primary}
                = {Reconciled(CandidateData(Snapshot(p), DefaultAvatarSize))}

SetPrimaryDone(p) == pc[p] = "done" /\ local[p].view = "set_primary" /\ local[p].applied

C11_DisableGravatarEffect ==
    (last.request.view = "disable_gravatar" /\ last.applied /\ Len(avatar_set[last.target]) >= 1)
    => /\ avatar_type[last.target] = "a"
       /\ avatar_set[last.target][1].primary

\* C11 witness: disable_gravatar applied to a user with two uploads who showed
\* the gravatar (so neither upload was primary): the first one is now primary
C11_Witness ==
    /\ last.request.view = "disable_gravatar"
    /\ last.applied
    /\ last.pre_type = "g"
    /\ Len(avatar_set[last.target]) = 2
    /\ avatar_set[last.target][1].primary
    /\ ~avatar_set[last.target][2].primary


\* the listing a show_list request has just rendered
Rendered == last.request.view = "show_list" /\ last.response.status = "render"

\* C14: normalizing a listing that get_avatar_data returned gives the same
\* sequence again: same entries, same order, same is_primary flags
C14_NormalizeIdempotent ==
    \A u \in Users :
        ~Listing(u).raised
        => Normalize(Listing(u).avatar_data)
             = [raised |-> FALSE, avatar_data |-> Listing(u).avatar_data]

\* C14 witness: show_list rendered a listing whose primary entry was moved to
\* the head, so that the listing differs from the candidate list
C14_Witness ==
    /\ Rendered
    /\ last.data.avatar_data # CandidateData(UserObj(DB, last.target), DefaultAvatarSize)
    /\ last.data.avatar_data = Listing(last.target).avatar_data
    /\ Len(avatar_set[last.target]) >= 2

\* C15: an upload for a user who already has AVATAR_MAX_AVATARS_PER_USER
\* avatars, or with a file that fails validation, changes neither the avatars
\* nor avatar_type; and no user ever has more than that many avatars
C15_UploadRejected ==
    [][/\ (/\ last'.request.view = "upload"
           /\ last'.target \in Users
           /\ \/ Len(avatar_set[last'.target]) >= AVATAR_MAX_AVATARS_PER_USER
              \/ ~last'.request.file_ok)
          => (avatar_type' = avatar_type /\ avatar_set' = avatar_set)
       /\ \A u \in Users : Len(avatar_set'[u]) <= AVATAR_MAX_AVATARS_PER_USER]_vars

\* C15 witness: a POST upload with a valid file, by the owner, for a user who
\* is at the limit, was answered without creating an avatar
C15_Witness ==
    /\ last.request.view = "upload"
    /\ last.request.method = "POST"
    /\ last.request.file_ok
    /\ last.request.user.id = last.target
    /\ ~last.applied
    /\ Len(avatar_set[last.target]) = AVATAR_MAX_AVATARS_PER_USER
    /\ last.response = redirect_to_show_list(last.target)

Mutating == {"set_primary", "upload", "delete",
             "enable_gravatar", "enable_default_avatar", "disable_gravatar"}

\* the caller the spec lets through: the owner or an administrator, and for
\* delete a moderator too
Authorized(request, target) ==
    /\ request.user.is_authenticated
    /\ \/ request.user.id = target
       \/ request.user.is_administrator
       \/ (request.view = "delete" /\ request.user.is_moderator)

\* a redirect to the avatar list of user u
ToShowList(u) == [status |-> "redirect", to |-> <<"askbot_avatar_show_list", u>>]

\* a mutating request about an existing user that was applied, or that came
\* from a caller who is not authorized
AppliedOrUnauthorized ==
    /\ last.request.view \in Mutating
    /\ last.target \in Users
    /\ (last.applied \/ ~Authorized(last.request, last.target))

\* C16: every mutating operation, applied or refused for lack of
\* authorization, answers with a redirect to the avatar list of the user
C16_AlwaysRedirectsToList == AppliedOrUnauthorized => last.response = ToShowList(last.target)

\* C16 as amended: the same, except that a caller who is not logged in gets,
\* from every view but delete, a redirect to the login page
C16_RedirectsToListOrLogin ==
    AppliedOrUnauthorized
    => IF last.request.view # "delete" /\ ~last.request.user.is_authenticated
       THEN last.response = RedirectToLogin /\ ~last.applied
       ELSE last.response = ToShowList(last.target)

\* C16 witness: a logged-in user who is neither the avatar's owner, nor an
\* administrator, nor a moderator posted a delete: nothing was deleted and the
\* answer is a redirect to the owner's avatar list
C16_Witness ==
    /\ last.request.view = "delete"
    /\ last.request.method = "POST"
    /\ last.request.user = PlainUser(last.request.user.id)
    /\ last.target \in Users \ {last.request.user.id}
    /\ ~last.applied
    /\ last.response = ToShowList(last.target)

\* a datum without its url and its flag
Kind(datum) == <<datum.avatar_type, datum.id>>

Kinds(avatar_data) == [i \in DOMAIN avatar_data |-> Kind(avatar_data[i])]

\* the candidate order for user u: uploads in storage order, gravatar, default
CandidateOrder(u) ==
    [i \in DOMAIN avatar_set[u] |-> <<"uploaded_avatar", avatar_set[u][i].id>>]
        \o <<<<"gravatar", NoId>>, <<"default_avatar", NoId>>>>

\* the is_primary flag the candidate datum of this kind carries for user u
CandidateFlag(u, kind) ==
    CASE kind[1] = "gravatar"        -> avatar_type[u] = "g"
      [] kind[1] = "default_avatar"  -> avatar_type[u] = "n"
      [] kind[1] = "uploaded_avatar" -> \E r \in Range(avatar_set[u]) : r.id = kind[2] /\ r.primary

\* C17: a listing that is returned is a permutation of the candidate listing:
\* every uploaded avatar once, one gravatar entry, one default entry, each with
\* its candidate flag; the entries other than the primary one are in candidate
\* order (uploads in storage order, then gravatar, then default)
C17_ListingIsPermutation ==
    \A u \in Users :
        LET data == Listing(u).avatar_data
        IN ~Listing(u).raised
           => /\ Len(data) = Len(CandidateOrder(u))
              /\ \A i \in DOMAIN data : data[i].is_primary = CandidateFlag(u, Kind(data[i]))
              /\ IF Len(PrimaryIdx(data)) = 0
                 THEN Kinds(data) = CandidateOrder(u)
                 ELSE /\ data[1].is_primary
                      /\ Kind(data[1]) \in Range(CandidateOrder(u))
                      /\ Kinds(Tail(data))
                           = SelectSeq(CandidateOrder(u), LAMBDA k : k # Kind(data[1]))

\* C17 witness: show_list rendered the listing of a user whose second upload is
\* primary: it was moved to the head, before the first upload
C17_Witness ==
    /\ Rendered
    /\ Len(avatar_set[last.target]) >= 2
    /\ avatar_set[last.target][2].primary
    /\ Kind(last.data.avatar_data[1]) = <<"uploaded_avatar", avatar_set[last.target][2].id>>
    /\ Kind(last.data.avatar_data[2]) = <<"uploaded_avatar", avatar_set[last.target][1].id>>

\* C18: the boolean returned with the listing is true exactly when the listing
\* has an uploaded entry; for a user without uploads who shows the gravatar the
\* result is [gravatar(primary), default(not primary)] and False
C18_HasUploadedAvatar ==
    \A u \in Users :
        ~Listing(u).raised
        => /\ Listing(u).has_uploaded_avatar
                <=> \E i \in DOMAIN Listing(u).avatar_data :
                        Listing(u).avatar_data[i].avatar_type = "uploaded_avatar"
           /\ (Len(avatar_set[u]) = 0 /\ avatar_type[u] = "g")
                => /\ Entries(Listing(u).avatar_data)
                        = <<<<"gravatar", NoId, TRUE>>, <<"default_avatar", NoId, FALSE>>>>
                   /\ ~Listing(u).has_uploaded_avatar

\* C18 witness: show_list rendered the listing of a user without uploads who
\* shows the gravatar
C18_Witness ==
    /\ Rendered
    /\ Len(avatar_set[last.target]) = 0
    /\ avatar_type[last.target] = "g"
    /\ ~last.data.has_uploaded_avatar
    /\ Len(last.data.avatar_data) = 2

\* the request may delete the avatar it names: a POST from an authenticated
\* caller who is the avatar's owner, an administrator or a moderator
MayDelete(request) ==
    /\ request.method = "POST"
    /\ request.user.is_authenticated
    /\ \/ request.user.is_administrator
       \/ request.user.is_moderator
       \/ (request.avatar_id \in AllIds(DB) /\ OwnerOf(DB, request.avatar_id) = request.user.id)

\* C19: a delete request that is not a POST from the avatar's owner, an
\* administrator or a moderator changes nothing: every avatar still exists and
\* every avatar_type and primary flag is as before
C19_DeleteOnlyWhenAuthorized ==
    [][(last'.request.view = "delete" /\ ~MayDelete(last'.request))
       => /\ ~last'.applied
          /\ avatar_set' = avatar_set
          /\ avatar_type' = avatar_type]_vars

\* C19 witness: an authenticated user who is neither the owner nor staff posted
\* a delete for an avatar, which is still there
C19_Witness ==
    /\ last.request.view = "delete"
    /\ last.request.method = "POST"
    /\ last.request.user.is_authenticated
    /\ ~MayDelete(last.request)
    /\ last.request.avatar_id \in AllIds(DB)
    /\ ~last.applied

\* C20: show_list writes nothing, and a request about one user leaves the
\* avatar_type, the avatars and the primary flags of every other user unchanged
C20_ReadOnlyAndFrame ==
    [][/\ last'.request.view = "show_list"
          => (avatar_type' = avatar_type /\ avatar_set' = avatar_set /\ next_pk' = next_pk)
       /\ \A u \in Users :
            u # last'.target
            => (avatar_type'[u] = avatar_type[u] /\ avatar_set'[u] = avatar_set[u])]_vars

\* C20 witness: enable_gravatar cleared the flags of one user while another
\* user shows an uploaded avatar, which is still primary
C20_Witness ==
    /\ last.request.view = "enable_gravatar"
    /\ last.applied
    /\ last.pre_type = "a"
    /\ \E u \in Users :
        /\ u # last.target
        /\ avatar_type[u] = "a"
        /\ \E r \in Range(avatar_set[u]) : r.primary

(***************************************************************************)
(* Further properties of SpecConc                                          *)
(***************************************************************************)
\* request p has run view v to its end and made its writes
TransitionDone(p, v) == pc[p] = "done" /\ local[p].view = v /\ local[p].applied

\* C12: a delete and an enable_gravatar, enable_default_avatar or
\* disable_gravatar on the same user, however interleaved, end as one of their
\* two serial orders ends.  delete keeps the avatar_type, so in both orders the
\* other view's avatar_type stands at the end, and after enable_gravatar or
\* enable_default_avatar no avatar is stored primary.
C12_DeleteSerializable ==
    \A p \in Procs, q \in Procs :
        (p # q /\ TransitionDone(p, "delete"))
        => /\ TransitionDone(q, "enable_gravatar")
                => (avatar_type[ConcUser] = "g" /\ StoredPrimaries(ConcUser) = {})
           /\ TransitionDone(q, "enable_default_avatar")
                => (avatar_type[ConcUser] = "n" /\ StoredPrimaries(ConcUser) = {})
           /\ TransitionDone(q, "disable_gravatar")
                => (avatar_type[ConcUser] = "a" /\ Cardinality(StoredPrimaries(ConcUser)) <= 1)

\* C13: a listing computed from avatars read while another request is between
\* two of its writes is returned without error and has exactly one primary
\* entry, at the head
C13_ListingMidTransition ==
    \A p \in Procs :
        (ShowListDone(p) /\ local[p].midway)
        => /\ ~local[p].data.raised
           /\ Len(PrimaryIdx(local[p].data.avatar_data)) = 1
           /\ local[p].data.avatar_data[1].is_primary


====
